---- MODULE Spec2Model ----
(***************************************************************************)
(* Model of the content indexing and retrieval subsystem: the four        *)
(* per-modality indexers (TextIndexer, PDFIndexer, VideoIndexer,           *)
(* ImageIndexer) with their in-memory stores, index_file / search /        *)
(* get_stats, and the retrieval aggregator of AdaptivePromptSystem.        *)
(*                                                                         *)
(* Abstractions.  A content string is a record [head, tail]: head stands   *)
(* for its first 100 characters, tail for the rest; the empty string is    *)
(* EmptyStr.  Similarities are integers in tenths (0.3 is 3); thresholds   *)
(* and similarities live on this one grid.  What the external libraries    *)
(* (file reads, json, pdfplumber/PyPDF2, PIL, cv2, moviepy, speech         *)
(* recognition) return for a file is part of the file record.              *)
(***************************************************************************)
EXTENDS Integers, Sequences, FiniteSets, TLC

\* ------------------------------------------------------------------ bounds
\* Stored chunks over the four stores together.
MaxStore == 2
\* top_k ranges over 0..MaxK.
MaxK == 2
\* Longest detected_topics list handed to the aggregator.
MaxTopics == 1
\* Number of distinct values of hash() (a string hash is not injective).
HashMod == 6
\* Most routed files of Resources that a resources directory lacks.
MaxAbsent == 1
\* Messages chat_history holds at most.
MaxChat == 2
\* Longest short text handed to the chunkers, in words.
MaxWords == 6
\* Largest chunk_size, and overlap, tried on the short texts.
MaxChunkSize == 3
\* Most sentences in a PDF text, and most words in one sentence.
MaxSentences == 4
MaxSentenceWords == 2
\* Most 30-second slots of audio in a transcription.
MaxSegments == 5
\* Most 30-second slots of audio in a video that is indexed.
MaxSlots == 3
\* Most inputs one prompt system is given.
MaxInteractions == 12
\* Most updates of one user profile.
MaxUpdates == 4
\* Most topics of a study plan, and most weeks.
MaxPlanTopics == 5
MaxWeeks == 4

\* ------------------------------------------------------- program constants
max_search_results == 5
similarity_threshold == 3
primary_top_k == 3
topic_top_k == 2
topic_min_similarity == 2
plumber_min_chars == 100
\* chunk_text(self, text, chunk_size=300, overlap=50)
default_chunk_size == 300
default_overlap == 50
chunk_length == 30
default_chunk_duration == 60
word_chunk_size == 200
conversation_memory == 10

\* ---------------------------------------------------------------- helpers
Range(s) == {s[i] : i \in 1..Len(s)}

Min(a, b) == IF a <= b THEN a ELSE b

Max(a, b) == IF a >= b THEN a ELSE b

\* s[:k] for k >= 0.
Take(s, k) == SubSeq(s, 1, Min(k, Len(s)))

\* The [::-1] left out.
Reverse_missing(s) == s

Reverse(s) == [i \in 1..Len(s) |-> s[Len(s) + 1 - i]]

\* The elements of a finite set of integers as an ascending sequence.
Ascending(S) ==
    [k \in 1..Cardinality(S) |->
        CHOOSE x \in S : Cardinality({y \in S : y < x}) = k - 1]

IsPrefix(s, t) == Len(s) <= Len(t) /\ SubSeq(t, 1, Len(s)) = s

\* {**base, **extra}: keys of extra override keys of base.
Merge(base, extra) == extra @@ base

\* --------------------------------------------------------------- contents
Str(h, t) == [head |-> h, tail |-> t]

EmptyStr == Str(0, 0)

\* Strings of at most 100 characters have an empty tail.
T1 == Str(3, 1)
T2 == Str(2, 2)
J1 == Str(5, 1)
P2 == Str(8, 1)
I1 == Str(4, 1)
I2 == Str(4, 2)
V1 == Str(6, 3)
\* "Formato .jpg. Arquivo pequeno (1KB)."
ErrDescription == Str(1, 0)
\* '[Transcrição não disponível - SpeechRecognition não instalado]'
Placeholder == Str(7, 0)

\* content[:100]
Prefix100(c) == c.head

\* hash(s) of a 100 character prefix.
Hash(p) == p % HashMod

\* SentenceTransformer.encode on one string: deterministic, fixed length.
Encode(c) == <<c.head, c.tail>>

\* The query strings tried.
Queries == {"qa"}

Topics == {"t_a", "t_b"}

\* topic.replace('_', ' ')
TopicQuery(t) == IF t = "t_a" THEN "t a" ELSE "t b"

\* Embedding of a query string.
EncodeQuery(q) ==
    CASE q = "qa" -> <<1, 0>>
      [] q = "qb" -> <<1, -1>>
      [] q = "t a" -> <<0, 1>>
      [] OTHER -> <<2, 1>>

\* np.dot of one stored embedding with the query embedding.
Dot(e, v) == e[1] * v[1] + e[2] * v[2]

\* ------------------------------------------------------------------ files
IndexerOrder == <<"text", "pdf", "video", "image">>

Indexers == Range(IndexerOrder)

NoText == [len |-> 0, chunks |-> <<>>]

\* A file as the file system and the external libraries present it.
\*   exists    Path.exists()
\*   is_file   Path.is_file(): a regular file, not a directory
\*   ext       Path.suffix.lower()
\*   readable  open/parse by the library of its format succeeds
\*   chunks    .txt: chunk_text(clean_text(read())); video: transcript chunks
\*   json      shape of json.load: "list", "dict" or "scalar"; items of a
\*             list as [isdict, text] with text = _extract_text_from_dict
\*   plumber, pypdf2  extracted text: stripped length and its chunks
\*   desc      description generated from the full image metadata
\*   audio     the video has an audio track
BaseFile(name, ext) ==
    [name |-> name, exists |-> TRUE, is_file |-> TRUE, ext |-> ext,
     readable |-> TRUE,
     chunks |-> <<>>, json |-> "none", items |-> <<>>,
     plumber |-> NoText, pypdf2 |-> NoText, desc |-> EmptyStr, audio |-> FALSE]

NoFile == BaseFile("", "")

Files ==
    { [BaseFile("missing.txt", ".txt") EXCEPT !.exists = FALSE,
          !.is_file = FALSE, !.readable = FALSE],
      [BaseFile("missing.mp4", ".mp4") EXCEPT !.exists = FALSE,
          !.is_file = FALSE, !.readable = FALSE],
      [BaseFile("a.txt", ".txt") EXCEPT !.chunks = <<T1, T2>>],
      BaseFile("blank.txt", ".txt"),
      [BaseFile("locked.txt", ".txt") EXCEPT !.readable = FALSE],
      [BaseFile("e.json", ".json") EXCEPT !.json = "list",
          !.items = <<[isdict |-> FALSE, text |-> EmptyStr],
                      [isdict |-> TRUE, text |-> EmptyStr]>>],
      [BaseFile("d.json", ".json") EXCEPT !.json = "dict",
          !.items = <<[isdict |-> TRUE, text |-> J1]>>],
      [BaseFile("bad.json", ".json") EXCEPT !.readable = FALSE],
      [BaseFile("a.pdf", ".pdf") EXCEPT
          !.plumber = [len |-> 40, chunks |-> <<T2>>],
          !.pypdf2 = [len |-> 200, chunks |-> <<T1, P2>>]],
      BaseFile("scan.pdf", ".pdf"),
      [BaseFile("bad.pdf", ".pdf") EXCEPT !.readable = FALSE],
      [BaseFile("a.png", ".png") EXCEPT !.desc = I1],
      [BaseFile("b.png", ".png") EXCEPT !.desc = I2],
      [BaseFile("bad.jpg", ".jpg") EXCEPT !.readable = FALSE],
      [BaseFile("a.mp4", ".mp4") EXCEPT !.audio = TRUE, !.chunks = <<V1>>],
      [BaseFile("mute.mp4", ".mp4") EXCEPT !.audio = FALSE],
      [BaseFile("silent.mp4", ".mp4") EXCEPT !.audio = TRUE],
      [BaseFile("bad.mp4", ".mp4") EXCEPT !.readable = FALSE],
      [BaseFile("c.mkv", ".mkv") EXCEPT !.readable = FALSE],
      BaseFile("notes.md", ".md"),
      [BaseFile("sub", "") EXCEPT !.is_file = FALSE, !.readable = FALSE] }

\* The paths a caller hands to indexer ix: every file of a format it
\* supports, the missing paths, and one existing file of a foreign format.
SupportedFormats(ix) ==
    CASE ix = "text" -> {".txt", ".json"}
      [] ix = "pdf" -> {".pdf"}
      [] ix = "image" -> {".jpg", ".jpeg", ".png", ".bmp", ".gif", ".tiff", ".tif", ".webp"}
      [] ix = "video" -> {".mp4", ".avi", ".mov", ".mkv", ".m4v", ".flv", ".wmv"}

Offered(ix) ==
    {f \in Files : \/ f.ext \in SupportedFormats(ix)
                   \/ ~f.exists
                   \/ f.name = (IF ix = "text" THEN "a.pdf" ELSE "a.txt")}

\* ------------------------------------------------------- the user profile
\* Difficulty, in the order of levels_numeric.
Levels == <<"iniciante", "intermediario", "avancado", "especialista">>

levels_numeric(level) == CHOOSE i \in 1..Len(Levels) : Levels[i] = level

\* UserProfile(): interaction_history is kept as its length, the evidence
\* lists of the gaps are left out.
InitialProfile ==
    [overall_level |-> "iniciante", learning_preferences |-> <<>>,
     knowledge_gaps |-> <<>>, strong_topics |-> <<>>,
     interaction_history |-> 0, preferred_explanation_style |-> "simples"]

\* The weighted average of the profile level and the current level, in
\* tenths, and the level of its band.
blend(profile_level, current_level) ==
    LET new_numeric == 7 * levels_numeric(profile_level)
                         + 3 * levels_numeric(current_level)
    IN  IF new_numeric <= 15 THEN "iniciante"
        ELSE IF new_numeric <= 25 THEN "intermediario"
        ELSE IF new_numeric <= 35 THEN "avancado"
        ELSE "especialista"

\* The format preferences not yet in the list, appended in order.
RECURSIVE add_preferences(_, _)
add_preferences(prefs, new) ==
    IF new = <<>> THEN prefs
    ELSE add_preferences(IF Head(new) \in Range(prefs) THEN prefs
                         ELSE Append(prefs, Head(new)),
                         Tail(new))

\* The loop over analysis['detected_topics']: confidence_score is in
\* tenths.
RECURSIVE gap_loop(_, _, _)
gap_loop(topics, profile, confidence_indicators) ==
    IF topics = <<>>
    THEN profile
    ELSE LET topic == Head(topics)
             gaps == profile.knowledge_gaps
             existing == {i \in 1..Len(gaps) : gaps[i].topic = topic}
             low == IF existing # {}
                    THEN [profile EXCEPT !.knowledge_gaps =
                            [i \in 1..Len(gaps) |->
                               IF i = CHOOSE e \in existing :
                                         \A o \in existing : e <= o
                               THEN [gaps[i] EXCEPT !.confidence_score =
                                        Min(@ + 1, 10)]
                               ELSE gaps[i]]]
                    ELSE [profile EXCEPT !.knowledge_gaps =
                            Append(gaps, [topic |-> topic,
                                          confidence_score |-> 3])]
             high == [profile EXCEPT
                        !.knowledge_gaps =
                            SelectSeq(gaps, LAMBDA g : g.topic # topic),
                        !.strong_topics =
                            IF topic \in Range(@) THEN @
                            ELSE Append(@, topic)]
         IN  gap_loop(Tail(topics),
                      IF "baixa" \in confidence_indicators THEN low
                      ELSE IF "alta" \in confidence_indicators THEN high
                      ELSE profile,
                      confidence_indicators)

\* DifficultyAnalyzer.update_user_profile: the profile after the call.
update_user_profile(profile, analysis) ==
    LET count == profile.interaction_history + 1
        level == IF count = 1 THEN analysis.difficulty_level
                 ELSE blend(profile.overall_level, analysis.difficulty_level)
        p1 == [profile EXCEPT
                 !.interaction_history = count,
                 !.overall_level = level,
                 !.learning_preferences =
                     add_preferences(@, analysis.format_preferences)]
        p2 == gap_loop(analysis.detected_topics, p1,
                       analysis.confidence_indicators)
    IN  [p2 EXCEPT !.preferred_explanation_style =
            IF level = "iniciante" THEN "simples"
            ELSE IF level = "intermediario" THEN "detalhado"
            ELSE "tecnico"]

\* analyze_user_input on an input that names these topics and holds no
\* difficulty, format or confidence keyword.
PlainAnalysis(topics) ==
    [detected_topics |-> topics, difficulty_level |-> "iniciante",
     format_preferences |-> <<>>, confidence_indicators |-> {}]

\* ------------------------------------------------- the conversation history
\* The interaction recorded for an input: the number of the input in the
\* profile's interaction_history stands for its timestamp.
Interaction(profile, q) ==
    [timestamp |-> profile.interaction_history, user_input |-> q]

\* The history with the interaction appended and never cut.
remember_unbounded(history, interaction) == Append(history, interaction)

\* conversation_history.append(interaction), then the cut to the last
\* conversation_memory interactions.
remember(history, interaction) ==
    LET h == Append(history, interaction)
    IN  IF Len(h) > conversation_memory
        THEN SubSeq(h, Len(h) - conversation_memory + 1, Len(h))
        ELSE h

\* ------------------------------------------------------------------ state
VARIABLES
    documents,        \* [indexer -> list of contents]
    embeddings,       \* [indexer -> list of vectors]
    metadata,         \* [indexer -> list of metadata dicts]
    speech_enabled,   \* VideoIndexer.speech_enabled, fixed at construction
    op,               \* the last call
    who,              \* the indexer it was made on
    file,             \* index_file: its file
    params,           \* search: [query, top_k, min_similarity]
    ret,              \* "True", "False", "raise", "list", "dict"
    results,          \* search / aggregator: the returned list
    raw,              \* aggregator: all_results before deduplication
    indexing_progress, \* session_state.indexing_progress: [file name -> status]
    temp_files,       \* temporary files on disk
    listing,          \* index_resources_data: names of the directory entries
    index_calls,      \* index_resources_data: its index_file calls, in order
    chat_history,     \* session_state.chat_history
    conversation_history, \* AdaptivePromptSystem.conversation_history
    user_profile      \* DifficultyAnalyzer.user_profile

vars == <<documents, embeddings, metadata, speech_enabled,
          op, who, file, params, ret, results, raw, indexing_progress,
          temp_files, listing, index_calls, chat_history, conversation_history,
                   user_profile>>

store == <<documents, embeddings, metadata>>

NoParams == [query |-> "", top_k |-> 0, min_similarity |-> 0]

Stored == Len(documents["text"]) + Len(documents["pdf"])
            + Len(documents["video"]) + Len(documents["image"])

\* ----------------------------------------------------- index_file outcomes
\* What one index_file call does: its return value ("raise" when an
\* exception leaves it), the metadata dicts it stores and the temporary
\* files it created that are still on disk when it ends.
Fail == [ret |-> "False", docs |-> <<>>, temps |-> {}]

Raise == [ret |-> "raise", docs |-> <<>>, temps |-> {}]

Success(docs) == [ret |-> "True", docs |-> docs, temps |-> {}]

\* Python's None where a number is expected.
None == -1

\* ------------------------------------------------------------ TextIndexer
process_txt_file(f) ==
    IF ~f.readable
    THEN <<>>
    ELSE [i \in 1..Len(f.chunks) |->
            [content |-> f.chunks[i], source |-> f.name, type |-> "text",
             chunk_index |-> i - 1, total_chunks |-> Len(f.chunks)]]

process_json_file(f) ==
    IF ~f.readable
    THEN <<>>
    ELSE IF f.json = "list"
    THEN LET D == Ascending({i \in 1..Len(f.items) : f.items[i].isdict})
         IN  [j \in 1..Len(D) |->
                [content |-> f.items[D[j]].text, source |-> f.name,
                 type |-> "json", item_index |-> D[j] - 1, raw_data |-> D[j]]]
    ELSE IF f.json = "dict"
    THEN << [content |-> f.items[1].text, source |-> f.name,
             type |-> "json", raw_data |-> 1] >>
    ELSE <<>>

TextIndexer_index_file(f, encode_ok) ==
    IF ~f.exists
    THEN Fail
    ELSE IF f.ext \notin {".txt", ".json"}
    THEN Fail
    ELSE LET docs == IF f.ext = ".txt" THEN process_txt_file(f)
                     ELSE process_json_file(f)
         IN  IF docs # <<>>
             THEN IF encode_ok THEN Success(docs) ELSE Raise
             ELSE Fail

\* ------------------------------------------------------------- PDFIndexer
extract_text_pdfplumber(f) ==
    IF f.readable
    THEN [text |-> f.plumber,
          meta |-> [total_pages |-> 1, extractor |-> "pdfplumber"]]
    ELSE [text |-> NoText, meta |-> <<>>]

extract_text_pypdf2(f) ==
    IF f.readable
    THEN [text |-> f.pypdf2,
          meta |-> [total_pages |-> 1, extractor |-> "PyPDF2"]]
    ELSE [text |-> NoText, meta |-> <<>>]

extract_text(f) ==
    LET a == extract_text_pdfplumber(f)
        b == extract_text_pypdf2(f)
    IN  IF a.text.len < plumber_min_chars /\ b.text.len > a.text.len
        THEN b
        ELSE a

PDFIndexer_index_file(f, encode_ok) ==
    IF ~f.exists
    THEN Fail
    ELSE IF f.ext # ".pdf"
    THEN Fail
    ELSE LET x == extract_text(f)
             chunks == x.text.chunks
             docs == [i \in 1..Len(chunks) |->
                        Merge([content |-> chunks[i], source |-> f.name,
                               type |-> "pdf", chunk_index |-> i - 1,
                               total_chunks |-> Len(chunks)], x.meta)]
         IN  IF x.text.len = 0
             THEN Fail
             ELSE IF chunks = <<>>
             THEN Fail
             ELSE IF encode_ok THEN Success(docs) ELSE Raise

\* ----------------------------------------------------------- ImageIndexer
image_supported_formats == SupportedFormats("image")

get_image_metadata(f) ==
    IF f.readable
    THEN [file_size |-> 1, format |-> "PNG", mode |-> "RGB", width |-> 1,
          height |-> 1, file_hash |-> f.name, aspect_ratio |-> 1,
          total_pixels |-> 1, color_mode |-> "RGB (24-bit)"]
    ELSE [file_size |-> 1, format |-> f.ext, error |-> "cannot identify"]

\* {} when cv2.imread returns None or the analysis raises.
analyze_image_colors(f) ==
    IF f.readable THEN [brightness |-> 1, contrast |-> 1] ELSE <<>>

\* ". ".join(descriptions) + ".": never the empty string.
generate_image_description(f, md) ==
    IF "width" \in DOMAIN md THEN f.desc ELSE ErrDescription

ImageIndexer_index_file(f, encode_ok) ==
    IF ~f.exists
    THEN Fail
    ELSE IF f.ext \notin image_supported_formats
    THEN Fail
    ELSE LET md0 == get_image_metadata(f)
             colors == analyze_image_colors(f)
             md == IF DOMAIN colors # {}
                   THEN Merge(md0, [colors_analysis |-> colors])
                   ELSE md0
             description == generate_image_description(f, md)
             doc == Merge([content |-> description, source |-> f.name,
                           type |-> "image", chunk_index |-> 0,
                           total_chunks |-> 1], md)
         IN  IF encode_ok THEN Success(<<doc>>) ELSE Raise

\* ----------------------------------------------------------- VideoIndexer
video_supported_formats == SupportedFormats("video")

get_video_metadata(f) ==
    IF f.readable
    THEN [duration |-> 90, fps |-> 30, file_size |-> 1, format |-> f.ext]
    ELSE [duration |-> None, fps |-> None, file_size |-> 1, format |-> f.ext]

\* f"{x:.1f}" raises TypeError on None.
FormatRaises(x) == x = None

\* The temporary .wav of one extract_audio call (NamedTemporaryFile with
\* delete=False), named here after the video it is made for.
TempWav(f) == <<"wav", f.name>>

\* extract_audio: the path it returns ("None" for None) and the temporary
\* files it leaves on disk.  VideoFileClip raises on a clip it cannot open,
\* before the temporary file is made; a clip without audio track returns
\* None after it is made.
extract_audio(f) ==
    IF ~f.readable
    THEN [audio_path |-> "None", created |-> {}]
    ELSE IF ~f.audio
    THEN [audio_path |-> "None", created |-> {TempWav(f)}]
    ELSE [audio_path |-> "wav", created |-> {TempWav(f)}]

\* A temporary audio path, or None: no audio track, or the clip cannot be
\* opened.
extract_audio_ok(f) == extract_audio(f).audio_path # "None"

\* The transcription record: whether its text is empty, whether it is the
\* placeholder, and the chunks chunk_transcription makes of it (the
\* placeholder has no segments and seven words: one word-count chunk).
transcribe_audio(f, speech) ==
    IF ~speech
    THEN [empty |-> FALSE, placeholder |-> TRUE, language |-> "unknown",
          chunks |-> <<Placeholder>>]
    ELSE [empty |-> f.chunks = <<>>, placeholder |-> FALSE,
          language |-> IF f.chunks = <<>> THEN "unknown" ELSE "pt-BR",
          chunks |-> f.chunks]

\* index_file without its Path.exists() guard.
VideoIndexer_index_file_unguarded(f, encode_ok, speech) ==
    IF f.ext \notin video_supported_formats
    THEN Fail
    ELSE IF FormatRaises(get_video_metadata(f).duration)
    THEN Raise
    ELSE Fail

VideoIndexer_index_file(f, encode_ok, speech) ==
    IF ~f.exists
    THEN Fail
    ELSE IF f.ext \notin video_supported_formats
    THEN Fail
    ELSE LET vm == get_video_metadata(f)
             t == transcribe_audio(f, speech)
             docs == [i \in 1..Len(t.chunks) |->
                        [content |-> t.chunks[i], source |-> f.name,
                         type |-> "video", chunk_index |-> i - 1,
                         total_chunks |-> Len(t.chunks),
                         language |-> t.language, duration |-> vm.duration]]
         IN  IF FormatRaises(vm.duration)
             THEN Raise
             ELSE IF ~extract_audio_ok(f)
             THEN [Fail EXCEPT !.temps = extract_audio(f).created]
             ELSE IF (t.empty \/ t.placeholder) /\ speech
             THEN Fail
             ELSE IF docs = <<>>
             THEN Fail
             ELSE IF encode_ok THEN Success(docs) ELSE Raise

index_file(ix, f, encode_ok, speech) ==
    CASE ix = "text" -> TextIndexer_index_file(f, encode_ok)
      [] ix = "pdf" -> PDFIndexer_index_file(f, encode_ok)
      [] ix = "image" -> ImageIndexer_index_file(f, encode_ok)
      [] ix = "video" -> VideoIndexer_index_file(f, encode_ok, speech)

\* Empty contents filtered out of the list that is embedded and stored.
Contents_skip_empty(docs) ==
    LET D == Ascending({i \in 1..Len(docs) : docs[i].content # EmptyStr})
    IN  [j \in 1..Len(D) |-> docs[D[j]].content]

\* doc['content'] for doc in documents
Contents(docs) == [i \in 1..Len(docs) |-> docs[i].content]

\* model.encode(contents): one vector per string.
EncodeAll(contents) == [i \in 1..Len(contents) |-> Encode(contents[i])]

\* New items put in front of the list.
Extend_front(list, items) == items \o list

\* list.extend
Extend(list, items) == list \o items

\* ----------------------------------------------------------------- search
\* similarities = np.dot(embeddings_array, query_embedding.T).flatten()
Similarities(ix, q) ==
    [i \in 1..Len(embeddings[ix]) |-> Dot(embeddings[ix][i], EncodeQuery(q))]

\* The threshold filter left out.
ValidIndices_unfiltered(sims, min_similarity) == Ascending(1..Len(sims))

\* np.where(similarities >= min_similarity)[0]: ascending store indices.
ValidIndices(sims, min_similarity) ==
    Ascending({i \in 1..Len(sims) : sims[i] >= min_similarity})

\* np.argsort(v): a permutation putting v in ascending order.  The default
\* sort kind is not stable: equal values may come out in either order.
ArgSorts(v) ==
    {p \in [1..Len(v) -> 1..Len(v)] :
        /\ \A i, j \in 1..Len(v) : i # j => p[i] # p[j]
        /\ \A i, j \in 1..Len(v) : i < j => v[p[i]] <= v[p[j]]}

\* One returned result.  idx (the store index, original_idx) is kept for
\* reference; the code does not return it.
SearchResult(ix, i, sims) ==
    LET meta == metadata[ix][i]
        base == [content |-> documents[ix][i], similarity |-> sims[i],
                 metadata |-> meta, idx |-> i]
    IN  CASE ix = "image" ->
               Merge(base, [visual_info |-> [format |-> meta.format]])
          [] ix = "video" ->
               Merge(base, [time_info |-> [start |-> "00:00"]])
          [] OTHER -> base

\* The body of search once the query is encoded, for one argsort outcome p.
Ranked(ix, q, top_k, min_similarity, p) ==
    LET sims == Similarities(ix, q)
        valid_indices == ValidIndices(sims, min_similarity)
        sorted_indices == Take(Reverse(p), top_k)
    IN  [j \in 1..Len(sorted_indices) |->
            SearchResult(ix, valid_indices[sorted_indices[j]], sims)]

ValidSimilarities(ix, q, min_similarity) ==
    LET sims == Similarities(ix, q)
        valid_indices == ValidIndices(sims, min_similarity)
    IN  [j \in 1..Len(valid_indices) |-> sims[valid_indices[j]]]

\* search without its empty-store guard: np.dot on an empty array raises.
search_unguarded(ix, q, top_k, min_similarity, encode_ok) ==
    IF ~encode_ok \/ embeddings[ix] = <<>>
    THEN {[ret |-> "raise", results |-> <<>>]}
    ELSE {[ret |-> "list",
           results |-> Ranked(ix, q, top_k, min_similarity, p)] :
             p \in ArgSorts(ValidSimilarities(ix, q, min_similarity))}

\* Every outcome of search(query, top_k, min_similarity) on indexer ix;
\* encode_ok says whether model.encode works during the call.
search(ix, q, top_k, min_similarity, encode_ok) ==
    IF embeddings[ix] = <<>>
    THEN {[ret |-> "list", results |-> <<>>]}
    ELSE IF ~encode_ok
    THEN {[ret |-> "raise", results |-> <<>>]}
    ELSE {[ret |-> "list",
           results |-> Ranked(ix, q, top_k, min_similarity, p)] :
             p \in ArgSorts(ValidSimilarities(ix, q, min_similarity))}

\* -------------------------------------------------------------- get_stats
get_stats(ix) ==
    IF ix = "image" /\ metadata[ix] = <<>>
    THEN <<>>
    ELSE [total_documents |-> Len(documents[ix]),
          total_files |->
              Cardinality({metadata[ix][i].source : i \in 1..Len(metadata[ix])})]

\* ---------------------------------------------------------------- actions
MinSims == {0, 3}

Init ==
    /\ documents = [ix \in Indexers |-> <<>>]
    /\ embeddings = [ix \in Indexers |-> <<>>]
    /\ metadata = [ix \in Indexers |-> <<>>]
    /\ speech_enabled \in BOOLEAN
    /\ op = "init"
    /\ who = "none"
    /\ file = NoFile
    /\ params = NoParams
    /\ ret = "none"
    /\ results = <<>>
    /\ raw = <<>>
    /\ indexing_progress = <<>>
    /\ temp_files = {}
    /\ listing = <<>>
    /\ index_calls = <<>>
    /\ chat_history = <<>>
    /\ conversation_history = <<>>
    /\ user_profile = InitialProfile

\* indexer.index_file(path)
IndexFile ==
    \E ix \in Indexers, encode_ok \in BOOLEAN :
      \E f \in Offered(ix) :
        LET out == index_file(ix, f, encode_ok, speech_enabled)
            contents == Contents(out.docs)
        IN  /\ Stored + Len(out.docs) <= MaxStore
            /\ documents' = [documents EXCEPT ![ix] = Extend(@, contents)]
            /\ embeddings' = [embeddings EXCEPT ![ix] = Extend(@, EncodeAll(contents))]
            /\ metadata' = [metadata EXCEPT ![ix] = Extend(@, out.docs)]
            /\ op' = "index_file"
            /\ who' = ix
            /\ file' = f
            /\ params' = NoParams
            /\ ret' = out.ret
            /\ results' = <<>>
            /\ raw' = <<>>
            /\ temp_files' = temp_files \cup out.temps
            /\ UNCHANGED <<speech_enabled, indexing_progress, listing,
                           index_calls, chat_history, conversation_history,
                   user_profile>>

\* Whether model.encode works during a search: search on an empty store
\* does not call it, and a failing call does not get to read top_k and
\* min_similarity, so it is tried with one choice of them.
EncodeChoices(ix, top_k, min_similarity) ==
    IF embeddings[ix] # <<>> /\ top_k = MaxK /\ min_similarity = 0
    THEN BOOLEAN
    ELSE {TRUE}

\* indexer.search(query, top_k, min_similarity)
Search ==
    \E ix \in Indexers, q \in Queries, top_k \in 0..MaxK,
       min_similarity \in MinSims :
      \E encode_ok \in EncodeChoices(ix, top_k, min_similarity) :
        \E out \in search(ix, q, top_k, min_similarity, encode_ok) :
            /\ op' = "search"
            /\ who' = ix
            /\ file' = NoFile
            /\ params' = [query |-> q, top_k |-> top_k,
                           min_similarity |-> min_similarity]
            /\ ret' = out.ret
            /\ results' = out.results
            /\ raw' = <<>>
            /\ UNCHANGED <<documents, embeddings, metadata, speech_enabled,
                           indexing_progress, temp_files, listing,
                           index_calls, chat_history, conversation_history,
                   user_profile>>

\* indexer.get_stats()
GetStats ==
    \E ix \in Indexers :
        /\ op' = "get_stats"
        /\ who' = ix
        /\ file' = NoFile
        /\ params' = NoParams
        /\ ret' = "dict"
        /\ results' = <<get_stats(ix)>>
        /\ raw' = <<>>
        /\ UNCHANGED <<documents, embeddings, metadata, speech_enabled,
                       indexing_progress, temp_files, listing, index_calls,
                       chat_history, conversation_history,
                   user_profile>>

Next == IndexFile \/ Search \/ GetStats

Spec == Init /\ [][Next]_vars

\* ------------------------------------------------- retrieval aggregator
\* No deduplication at all.
deduplicate_results_none(hits) == hits

RECURSIVE dedup_loop(_, _, _)
dedup_loop(hits, seen_content, unique_results) ==
    IF hits = <<>>
    THEN unique_results
    ELSE LET result == Head(hits)
             content_hash == Hash(Prefix100(result.content))
         IN  IF content_hash \notin seen_content
             THEN dedup_loop(Tail(hits), seen_content \cup {content_hash},
                             Append(unique_results, result))
             ELSE dedup_loop(Tail(hits), seen_content, unique_results)

\* AdaptivePromptSystem._deduplicate_results
deduplicate_results(hits) == dedup_loop(hits, {}, <<>>)

\* sorted(hits, key=similarity, reverse=True): stable, so hits of equal
\* similarity keep their order.
SortedBySimilarity(hits) ==
    LET n == Len(hits)
        Before(j, i) == \/ hits[j].similarity > hits[i].similarity
                        \/ hits[j].similarity = hits[i].similarity /\ j < i
        Pos(i) == 1 + Cardinality({j \in 1..n : Before(j, i)})
    IN  [k \in 1..n |-> hits[CHOOSE i \in 1..n : Pos(i) = k]]

\* result['source_type'] = indexer_type
Tagged(hits, ix) ==
    [i \in 1..Len(hits) |-> Merge(hits[i], [source_type |-> ix])]

\* ... and result['is_topic_search'] = True
TopicTagged(hits, ix) ==
    [i \in 1..Len(hits) |->
        Merge(hits[i], [source_type |-> ix, is_topic_search |-> TRUE])]

\* The topic loop of one indexer: every list of hits it can append.  An
\* exception of search ends the loop (the except clause continues with the
\* next indexer).
RECURSIVE topic_hits(_, _, _)
topic_hits(ix, topics, encode_ok) ==
    IF topics = <<>>
    THEN {<<>>}
    ELSE UNION {
           IF out.ret = "raise"
           THEN {<<>>}
           ELSE {TopicTagged(out.results, ix) \o rest :
                    rest \in topic_hits(ix, Tail(topics), encode_ok)} :
           out \in search(ix, TopicQuery(Head(topics)), topic_top_k,
                          topic_min_similarity, encode_ok) }

\* The body of the try block for one indexer.
indexer_hits(ix, q, topics, encode_ok) ==
    UNION {
      IF out.ret = "raise"
      THEN {<<>>}
      ELSE {Tagged(out.results, ix) \o rest :
               rest \in topic_hits(ix, topics, encode_ok)} :
      out \in search(ix, q, primary_top_k, similarity_threshold, encode_ok) }

\* all_results after the loop over self.indexers, from position k of the
\* dict order on.  Every indexer has its own embedding model: encode_ok[ix]
\* says whether the model of indexer ix works.
RECURSIVE all_results(_, _, _, _)
all_results(k, q, topics, encode_ok) ==
    IF k > Len(IndexerOrder)
    THEN {<<>>}
    ELSE {h \o rest : h \in indexer_hits(IndexerOrder[k], q, topics,
                                          encode_ok[IndexerOrder[k]]),
                      rest \in all_results(k + 1, q, topics, encode_ok)}

\* The embedding models at query time: all work, all fail, or one fails.
EncodeOutcomes ==
    {e \in [Indexers -> BOOLEAN] :
        Cardinality({ix \in Indexers : ~e[ix]}) \in {0, 1, Cardinality(Indexers)}}

\* What _search_indexed_content returns for the raw hit list all_results.
search_indexed_content(hits) ==
    Take(SortedBySimilarity(deduplicate_results(hits)), max_search_results)

\* detected_topics: duplicate-free lists of at most MaxTopics topics.
TopicLists ==
    {t \in UNION {[1..n -> Topics] : n \in 0..MaxTopics} :
        \A i, j \in 1..Len(t) : i # j => t[i] # t[j]}

\* --------------------------------------------------------------- the app
\* index_resources_data: the indexer of an extension, "none" when the
\* driver skips the file.
Route(ext) ==
    CASE ext \in {".txt", ".json"} -> "text"
      [] ext = ".pdf" -> "pdf"
      [] ext \in {".mp4", ".avi", ".mov"} -> "video"
      [] ext \in {".jpg", ".jpeg", ".png", ".bmp"} -> "image"
      [] OTHER -> "none"

\* One routed file: indexer.index_file inside the try block, and the status
\* recorded for the file.  st is [documents, embeddings, metadata,
\* progress, temps, calls].
index_one(ix, f, st, encode_ok, speech) ==
    LET out == index_file(ix, f, encode_ok, speech)
        contents == Contents(out.docs)
        status == CASE out.ret = "True" -> "Sucesso"
                    [] out.ret = "False" -> "Falha"
                    [] OTHER -> "Erro"
    IN  [documents |-> [st.documents EXCEPT ![ix] = Extend(@, contents)],
         embeddings |-> [st.embeddings EXCEPT
                            ![ix] = Extend(@, EncodeAll(contents))],
         metadata |-> [st.metadata EXCEPT ![ix] = Extend(@, out.docs)],
         progress |-> (f.name :> status) @@ st.progress,
         temps |-> st.temps \cup out.temps,
         calls |-> Append(st.calls,
                     [indexer |-> ix, name |-> f.name, ret |-> out.ret])]

\* The loop with the try block around it instead of inside it: the first
\* exception ends the loop.
RECURSIVE index_resources_data_aborting(_, _, _, _)
index_resources_data_aborting(entries, st, encode_ok, speech) ==
    IF entries = <<>>
    THEN st
    ELSE LET f == Head(entries)
             ix == Route(f.ext)
         IN  IF ~f.is_file \/ ix = "none"
             THEN index_resources_data_aborting(Tail(entries), st, encode_ok,
                                                speech)
             ELSE IF index_file(ix, f, encode_ok, speech).ret = "raise"
             THEN index_one(ix, f, st, encode_ok, speech)
             ELSE index_resources_data_aborting(Tail(entries),
                        index_one(ix, f, st, encode_ok, speech),
                        encode_ok, speech)

\* The loop of index_resources_data over the rest of a directory listing.
\* An entry that is no regular file is passed over; a file whose extension
\* the driver does not know gets a warning and no entry in
\* indexing_progress.
RECURSIVE index_resources_data(_, _, _, _)
index_resources_data(entries, st, encode_ok, speech) ==
    IF entries = <<>>
    THEN st
    ELSE LET f == Head(entries)
             ix == Route(f.ext)
         IN  IF ~f.is_file \/ ix = "none"
             THEN index_resources_data(Tail(entries), st, encode_ok, speech)
             ELSE index_resources_data(Tail(entries),
                        index_one(ix, f, st, encode_ok, speech),
                        encode_ok, speech)

\* The resources directory, in listing order.
Resources ==
    <<"a.mp4", "a.pdf", "a.png", "a.txt", "b.png", "bad.jpg", "bad.mp4",
      "blank.txt", "c.mkv", "d.json", "e.json", "notes.md", "sub">>

FileNamed(name) == CHOOSE f \in Files : f.name = name

\* The entries the driver has no indexer for.
Unrouted ==
    {k \in 1..Len(Resources) :
        LET f == FileNamed(Resources[k])
        IN  ~f.is_file \/ Route(f.ext) = "none"}

\* The directories: the empty one, and those with all but at most
\* MaxAbsent of the routed files and all or none of the other entries.
Directories ==
    {d \in SUBSET (1..Len(Resources)) :
        /\ d \cap Unrouted \in {{}, Unrouted}
        /\ \/ d = {}
           \/ Cardinality((1..Len(Resources)) \ (d \cup Unrouted)) <= MaxAbsent}

\* The listings: the files of Resources that are present, in order.
Listing(present) ==
    LET D == Ascending(present)
    IN  [k \in 1..Len(D) |-> FileNamed(Resources[D[k]])]

\* load_indexers: the indexers and the prompt system are built and the
\* resources directory is indexed.
LoadIndexers ==
    /\ op = "init"
    /\ \E present \in Directories, encode_ok \in BOOLEAN :
          LET st == index_resources_data(Listing(present),
                        [documents |-> documents, embeddings |-> embeddings,
                         metadata |-> metadata, progress |-> indexing_progress,
                         temps |-> temp_files, calls |-> <<>>],
                        encode_ok, speech_enabled)
          IN  /\ documents' = st.documents
              /\ embeddings' = st.embeddings
              /\ metadata' = st.metadata
              /\ indexing_progress' = st.progress
              /\ temp_files' = st.temps
              /\ index_calls' = st.calls
              /\ listing' = [k \in 1..Len(Listing(present)) |->
                                Listing(present)[k].name]
    /\ op' = "load_indexers"
    /\ who' = "none"
    /\ file' = NoFile
    /\ params' = NoParams
    /\ ret' = "none"
    /\ results' = <<>>
    /\ raw' = <<>>
    /\ UNCHANGED <<speech_enabled, chat_history, conversation_history,
                   user_profile>>

\* _search_indexed_content(query, detected_topics), as process_user_input
\* calls it once the system is loaded.
SearchIndexedContent ==
    /\ op # "init"
    /\ \E q \in Queries, topics \in TopicLists, b \in BOOLEAN :
          \E hits \in all_results(1, q, topics, [ix \in Indexers |-> b]) :
              /\ raw' = hits
              /\ results' = search_indexed_content(hits)
    /\ op' = "search_indexed_content"
    /\ who' = "none"
    /\ file' = NoFile
    /\ params' = NoParams
    /\ ret' = "list"
    /\ UNCHANGED <<documents, embeddings, metadata, speech_enabled,
                   indexing_progress, temp_files, listing, index_calls,
                   chat_history, conversation_history,
                   user_profile>>

NextSession == LoadIndexers \/ SearchIndexedContent

SpecSession == Init /\ [][NextSession]_vars

\* ------------------------------------------------------------- the chat
\* Whether a search of the retrieval raises: the store of an indexer whose
\* model fails is not empty (search on an empty store returns before it
\* encodes the query).
SearchRaises(encode_ok) ==
    \E ix \in Indexers : ~encode_ok[ix] /\ embeddings[ix] # <<>>

\* process_user_input with no except clause around the searches of an
\* indexer: an exception of search leaves it.
process_user_input_propagating(q, topics, encode_ok, respond_ok) ==
    IF SearchRaises(encode_ok) \/ ~respond_ok
    THEN {[ret |-> "raise", raw |-> <<>>, results |-> <<>>]}
    ELSE {[ret |-> "dict", raw |-> hits,
           results |-> search_indexed_content(hits)] :
             hits \in all_results(1, q, topics, encode_ok)}

\* AdaptivePromptSystem.process_user_input: the outcomes of one call.  The
\* retrieval catches the exceptions of search; respond_ok says whether the
\* response generation after it works.
process_user_input(q, topics, encode_ok, respond_ok) ==
    {[ret |-> IF respond_ok THEN "dict" ELSE "raise", raw |-> hits,
      results |-> search_indexed_content(hits)] :
        hits \in all_results(1, q, topics, encode_ok)}

UserMessage(q) == [role |-> "user", content |-> q]

\* The assistant message built from a response; search_results_count is
\* response['metadata']['search_results_count'].
AssistantMessage(hits) ==
    [role |-> "assistant", content |-> "response",
     search_results_count |-> Len(hits)]

Apology == [role |-> "assistant", content |-> "Desculpe"]

\* process_user_input of the app: the handler of a submitted question.
ProcessUserInput ==
    /\ op # "init"
    /\ Len(chat_history) + 2 <= MaxChat
    /\ \E q \in Queries, topics \in TopicLists, encode_ok \in EncodeOutcomes,
          respond_ok \in BOOLEAN :
          \E out \in process_user_input(q, topics, encode_ok, respond_ok) :
              /\ raw' = out.raw
              /\ results' = out.results
              /\ ret' = out.ret
              /\ params' = [query |-> q, topics |-> topics,
                             encode_ok |-> encode_ok,
                             respond_ok |-> respond_ok]
              /\ chat_history' =
                    chat_history \o
                      << UserMessage(q),
                         IF out.ret = "raise" THEN Apology
                         ELSE AssistantMessage(out.results) >>
              /\ user_profile' =
                    update_user_profile(user_profile, PlainAnalysis(topics))
              /\ conversation_history' =
                    IF out.ret = "raise" THEN conversation_history
                    ELSE remember(conversation_history,
                                  Interaction(user_profile', q))
    /\ op' = "process_user_input"
    /\ who' = "none"
    /\ file' = NoFile
    /\ UNCHANGED <<documents, embeddings, metadata, speech_enabled,
                   indexing_progress, temp_files, listing, index_calls>>

NextChat == LoadIndexers \/ ProcessUserInput

SpecChat == Init /\ [][NextChat]_vars

\* ------------------------------------------------ the prompt system alone
\* AdaptivePromptSystem.process_user_input called on the system as
\* constructed: the profile is updated before the retrieval, the
\* interaction is recorded after the response.
Ask ==
    /\ user_profile.interaction_history < MaxInteractions
    /\ \E q \in Queries, topics \in TopicLists, respond_ok \in BOOLEAN :
          \E out \in process_user_input(q, topics, [ix \in Indexers |-> TRUE],
                                        respond_ok) :
              /\ raw' = out.raw
              /\ results' = out.results
              /\ ret' = out.ret
              /\ params' = [query |-> q, topics |-> topics,
                             encode_ok |-> [ix \in Indexers |-> TRUE],
                             respond_ok |-> respond_ok]
              /\ user_profile' =
                    update_user_profile(user_profile, PlainAnalysis(topics))
              /\ conversation_history' =
                    IF out.ret = "raise" THEN conversation_history
                    ELSE remember(conversation_history,
                                  Interaction(user_profile', q))
    /\ op' = "ask"
    /\ who' = "none"
    /\ file' = NoFile
    /\ UNCHANGED <<documents, embeddings, metadata, speech_enabled,
                   indexing_progress, temp_files, listing, index_calls,
                   chat_history>>

\* AdaptivePromptSystem.reset_session: the profile is kept.
ResetSession ==
    /\ conversation_history' = <<>>
    /\ op' = "reset_session"
    /\ who' = "none"
    /\ file' = NoFile
    /\ params' = NoParams
    /\ ret' = "none"
    /\ results' = <<>>
    /\ raw' = <<>>
    /\ UNCHANGED <<documents, embeddings, metadata, speech_enabled,
                   indexing_progress, temp_files, listing, index_calls,
                   chat_history, user_profile>>

NextHistory == Ask \/ ResetSession

SpecHistory == Init /\ [][NextHistory]_vars

\* ------------------------------------------------------- the text chunker
\* A text is a sequence of tokens: 0 is one whitespace character, a
\* positive number is a word (the words of a text are numbered in order).
\* str.split(): the words, without the whitespace around them.
Split(text) == SelectSeq(text, LAMBDA t : t # 0)

\* ' '.join(words)
Join(words) ==
    [i \in 1..(2 * Len(words) - 1) |->
        IF i % 2 = 1 THEN words[(i + 1) \div 2] ELSE 0]

\* clean_text: every run of whitespace becomes one space and the ends are
\* stripped, which leaves the words with single spaces between them.
clean_text(text) == Join(Split(text))

\* A text of n words: with single spaces, or with whitespace at both ends
\* and two whitespace characters between words.
RawText(n, messy) ==
    IF ~messy
    THEN Join([i \in 1..n |-> i])
    ELSE [i \in 1..(3 * n + 1) |-> IF i % 3 = 2 THEN (i + 1) \div 3 ELSE 0]

\* list(range(0, n, step)) for n >= 0 and step # 0: empty when step < 0.
PyRange(n, step) ==
    IF step < 0
    THEN <<>>
    ELSE [k \in 1..((n + step - 1) \div step) |-> (k - 1) * step]

\* words[i:j] for 0 <= i <= j.
Slice(words, i, j) == SubSeq(words, i + 1, Min(j, Len(words)))

\* chunk_text with the overlap forgotten in the stride.
chunk_text_stride_size(text, chunk_size, overlap) ==
    LET words == Split(text)
        starts == PyRange(Len(words), chunk_size)
    IN  [ret |-> "list",
         chunks |-> [k \in 1..Len(starts) |->
                       Join(Slice(words, starts[k], starts[k] + chunk_size))]]

\* TextIndexer.chunk_text: "raise" when range() gets the step 0, else the
\* list of chunks.
chunk_text(text, chunk_size, overlap) ==
    LET words == Split(text)
        starts == PyRange(Len(words), chunk_size - overlap)
        chunks == [k \in 1..Len(starts) |->
                     Join(Slice(words, starts[k], starts[k] + chunk_size))]
    IN  IF chunk_size - overlap = 0
        THEN [ret |-> "raise", chunks |-> <<>>]
        ELSE [ret |-> "list",
              chunks |-> SelectSeq(chunks, LAMBDA c : c # <<>>)]

\* The text stored whole, as one document.
txt_documents_unchunked(text) ==
    IF Split(text) = <<>>
    THEN <<>>
    ELSE << [content |-> clean_text(text), type |-> "text",
             chunk_index |-> 0, total_chunks |-> 1] >>

\* process_txt_file from the text it read: the documents it returns.
txt_documents(text) ==
    LET chunks == chunk_text(clean_text(text), default_chunk_size,
                             default_overlap).chunks
    IN  [i \in 1..Len(chunks) |->
            [content |-> chunks[i], type |-> "text", chunk_index |-> i - 1,
             total_chunks |-> Len(chunks)]]

\* The word counts around the default stride and chunk size.
LongTexts == {default_chunk_size - default_overlap,
              default_chunk_size - default_overlap + 1,
              default_chunk_size}

ChunkInputs ==
    {[text |-> RawText(n, messy), chunk_size |-> c, overlap |-> o] :
        n \in 0..MaxWords, messy \in BOOLEAN, c \in 1..MaxChunkSize,
        o \in 0..MaxChunkSize}
    \cup
    {[text |-> RawText(n, messy), chunk_size |-> default_chunk_size,
      overlap |-> default_overlap] : n \in LongTexts, messy \in BOOLEAN}

\* The state before a pure function of indexer w is called: its arguments
\* are chosen from inputs.
InitCall(inputs, w) ==
    /\ documents = [ix \in Indexers |-> <<>>]
    /\ embeddings = [ix \in Indexers |-> <<>>]
    /\ metadata = [ix \in Indexers |-> <<>>]
    /\ speech_enabled = TRUE
    /\ op = "init"
    /\ who = w
    /\ file = NoFile
    /\ params \in inputs
    /\ ret = "none"
    /\ results = <<>>
    /\ raw = <<>>
    /\ indexing_progress = <<>>
    /\ temp_files = {}
    /\ listing = <<>>
    /\ index_calls = <<>>
    /\ chat_history = <<>>
    /\ conversation_history = <<>>
    /\ user_profile = InitialProfile

InitChunk == InitCall(ChunkInputs, "text")

\* chunk_text(text, chunk_size, overlap)
ChunkText ==
    LET out == chunk_text(params.text, params.chunk_size, params.overlap)
    IN  /\ op' = "chunk_text"
        /\ ret' = out.ret
        /\ results' = out.chunks
        /\ UNCHANGED <<documents, embeddings, metadata, speech_enabled, who,
                       file, params, raw, indexing_progress, temp_files,
                       listing, index_calls, chat_history, conversation_history,
                   user_profile>>

\* process_txt_file on a file holding the text: the default chunk settings.
ProcessTxtFile ==
    /\ op' = "process_txt_file"
    /\ ret' = "list"
    /\ results' = txt_documents(params.text)
    /\ params' = [params EXCEPT !.chunk_size = default_chunk_size,
                                !.overlap = default_overlap]
    /\ UNCHANGED <<documents, embeddings, metadata, speech_enabled, who,
                   file, raw, indexing_progress, temp_files, listing,
                   index_calls, chat_history, conversation_history,
                   user_profile>>

NextChunk == ChunkText \/ ProcessTxtFile

SpecChunk == InitChunk /\ [][NextChunk]_vars

\* -------------------------------------------------- the PDF sentence chunker
\* In a PDF text the token -1 is one sentence terminator ('.', '!' or '?').
\* len(s.split()): the words of s are its maximal runs of non-whitespace.
WordCount(s) ==
    Cardinality({i \in 1..Len(s) : s[i] # 0 /\ (i = 1 \/ s[i - 1] = 0)})

\* The number of leading tokens of s equal to t.
RunLen(s, t) ==
    CHOOSE n \in 0..Len(s) :
        /\ \A i \in 1..n : s[i] = t
        /\ n = Len(s) \/ s[n + 1] # t

\* re.split(r'[.!?]+\s+', text): a run of terminators followed by whitespace
\* is a delimiter; terminators not followed by whitespace stay in the
\* sentence.  cur is the sentence being read, acc the sentences read.
RECURSIVE re_split(_, _, _)
re_split(rest, cur, acc) ==
    IF rest = <<>>
    THEN Append(acc, cur)
    ELSE IF Head(rest) = -1
    THEN LET k == RunLen(rest, -1)
             after == SubSeq(rest, k + 1, Len(rest))
             m == RunLen(after, 0)
         IN  IF m > 0
             THEN re_split(SubSeq(after, m + 1, Len(after)), <<>>,
                           Append(acc, cur))
             ELSE re_split(after, cur \o SubSeq(rest, 1, k), acc)
    ELSE re_split(Tail(rest), Append(cur, Head(rest)), acc)

\* ' '.join(strings)
RECURSIVE JoinStr(_)
JoinStr(ss) ==
    IF ss = <<>> THEN <<>>
    ELSE IF Len(ss) = 1 THEN ss[1]
    ELSE Head(ss) \o <<0>> \o JoinStr(Tail(ss))

\* list[n:] for n <= 0: the whole list when n = 0, else its last -n items.
PyTail(list, n) ==
    IF n = 0 THEN list
    ELSE SubSeq(list, Max(1, Len(list) + n + 1), Len(list))

\* sum(len(s.split()) for s in sentences)
RECURSIVE SumWords(_)
SumWords(ss) ==
    IF ss = <<>> THEN 0 ELSE WordCount(Head(ss)) + SumWords(Tail(ss))

\* The loop of PDFIndexer.chunk_text over the sentences still to read.
RECURSIVE pdf_chunk_loop(_, _, _, _)
pdf_chunk_loop(sentences, st, chunk_size, overlap) ==
    IF sentences = <<>>
    THEN st
    ELSE LET sentence == Head(sentences)
             sentence_words == WordCount(sentence)
             overlap_sentences ==
                 IF Len(st.current_chunk) > overlap \div 20
                 THEN PyTail(st.current_chunk, (0 - overlap) \div 20)
                 ELSE st.current_chunk
             closed ==
                 [chunks |-> Append(st.chunks, JoinStr(st.current_chunk)),
                  current_chunk |-> Append(overlap_sentences, sentence),
                  current_length |->
                      SumWords(Append(overlap_sentences, sentence))]
             grown ==
                 [chunks |-> st.chunks,
                  current_chunk |-> Append(st.current_chunk, sentence),
                  current_length |-> st.current_length + sentence_words]
         IN  pdf_chunk_loop(Tail(sentences),
                 IF /\ st.current_length + sentence_words > chunk_size
                    /\ st.current_chunk # <<>>
                 THEN closed ELSE grown,
                 chunk_size, overlap)

\* chunk_text without the flush of the last chunk.
PDFIndexer_chunk_text_unflushed(text, chunk_size, overlap) ==
    pdf_chunk_loop(re_split(text, <<>>, <<>>),
                   [chunks |-> <<>>, current_chunk |-> <<>>,
                    current_length |-> 0],
                   chunk_size, overlap).chunks

\* PDFIndexer.chunk_text
PDFIndexer_chunk_text(text, chunk_size, overlap) ==
    LET st == pdf_chunk_loop(re_split(text, <<>>, <<>>),
                  [chunks |-> <<>>, current_chunk |-> <<>>,
                   current_length |-> 0],
                  chunk_size, overlap)
    IN  IF st.current_chunk # <<>>
        THEN Append(st.chunks, JoinStr(st.current_chunk))
        ELSE st.chunks

\* A cleaned PDF text whose sentences have the word counts lens, separated
\* by a terminator and a space; the words are numbered from first.
RECURSIVE PdfTextFrom(_, _)
PdfTextFrom(lens, first) ==
    IF lens = <<>> THEN <<>>
    ELSE LET s == Join([i \in 1..Head(lens) |-> first + i - 1])
         IN  IF Len(lens) = 1 THEN s
             ELSE s \o <<-1, 0>> \o PdfTextFrom(Tail(lens), first + Head(lens))

PdfText(lens, end_dot) ==
    PdfTextFrom(lens, 1) \o (IF end_dot /\ lens # <<>> THEN <<-1>> ELSE <<>>)

\* The overlaps tried: overlap // 20 is 0, 0, 1 and 2.
PdfOverlaps == {0, 10, 20, 50}

SentenceLens ==
    UNION {[1..n -> 1..MaxSentenceWords] : n \in 0..MaxSentences}

PdfChunkInputs ==
    {[text |-> PdfText(lens, end_dot), chunk_size |-> c, overlap |-> o] :
        lens \in SentenceLens, end_dot \in BOOLEAN, c \in 1..MaxChunkSize,
        o \in PdfOverlaps}

InitPdfChunk == InitCall(PdfChunkInputs, "pdf")

\* PDFIndexer.chunk_text(text, chunk_size, overlap)
PdfChunkText ==
    /\ op' = "pdf_chunk_text"
    /\ ret' = "list"
    /\ results' = PDFIndexer_chunk_text(params.text, params.chunk_size,
                                        params.overlap)
    /\ UNCHANGED <<documents, embeddings, metadata, speech_enabled, who,
                   file, params, raw, indexing_progress, temp_files,
                   listing, index_calls, chat_history, conversation_history,
                   user_profile>>

NextPdfChunk == PdfChunkText

SpecPdfChunk == InitPdfChunk /\ [][NextPdfChunk]_vars

\* ------------------------------------------------ the transcription chunker
\* str.strip(): the whitespace at both ends removed.
Strip(s) ==
    LET solid == {i \in 1..Len(s) : s[i] # 0}
    IN  IF solid = {} THEN <<>>
        ELSE SubSeq(s, CHOOSE i \in solid : \A j \in solid : i <= j,
                       CHOOSE i \in solid : \A j \in solid : i >= j)

\* The segment transcribe_audio makes of slot i of the audio (slots are
\* numbered from 0): its text is one word, numbered after the slot.
Segment(i) ==
    [start |-> chunk_length * i, end |-> chunk_length * (i + 1),
     text |-> <<i + 1>>]

\* The transcription of an audio whose slots in S were understood: slots
\* with no recognised text leave no segment.
Transcription(S) ==
    LET slots == Ascending(S)
        segments == [k \in 1..Len(slots) |-> Segment(slots[k])]
    IN  [text |-> JoinStr([k \in 1..Len(slots) |-> segments[k].text]),
         segments |-> segments]

\* The placeholder transcription: seven words and no segments.
PlaceholderTranscription ==
    [text |-> Join([i \in 1..7 |-> i]), segments |-> <<>>]

\* The close test with "strictly after the window" for "at or after".
Closes_strict(segment, current_chunk, chunk_duration) ==
    /\ segment.start > current_chunk.start_time + chunk_duration
    /\ current_chunk.text # <<>>

\* The test of chunk_transcription that closes the current chunk.
Closes(segment, current_chunk, chunk_duration) ==
    /\ segment.start >= current_chunk.start_time + chunk_duration
    /\ current_chunk.text # <<>>

\* The loop of chunk_transcription over the segments still to read.
RECURSIVE transcription_loop(_, _, _)
transcription_loop(segments, st, chunk_duration) ==
    IF segments = <<>>
    THEN st
    ELSE LET segment == Head(segments)
             cur == st.current_chunk
             closed ==
                 [chunks |->
                      IF Strip(cur.text) # <<>>
                      THEN Append(st.chunks,
                                  [cur EXCEPT !.text = Strip(cur.text)])
                      ELSE st.chunks,
                  current_chunk |->
                      [text |-> segment.text, start_time |-> segment.start,
                       end_time |-> segment.end, segments |-> <<segment>>]]
             grown ==
                 [chunks |-> st.chunks,
                  current_chunk |->
                      [text |-> cur.text \o <<0>> \o segment.text,
                       start_time |-> IF cur.text = <<>> THEN segment.start
                                      ELSE cur.start_time,
                       end_time |-> segment.end,
                       segments |-> Append(cur.segments, segment)]]
         IN  transcription_loop(Tail(segments),
                 IF Closes(segment, cur, chunk_duration)
                 THEN closed ELSE grown,
                 chunk_duration)

\* max(values, default=0) for values >= 0
MaxEnd(segments) ==
    IF segments = <<>> THEN 0
    ELSE CHOOSE e \in {segments[k].end : k \in 1..Len(segments)} :
             \A k \in 1..Len(segments) : segments[k].end <= e

\* The word-count chunks made when the time windows gave none.  The times
\* are i / len(words) * total_duration; total_duration is 0 for every
\* transcription tried here, so the integer quotient is exact.
word_chunks(transcription) ==
    LET words == Split(transcription.text)
        starts == PyRange(Len(words), word_chunk_size)
        total_duration == MaxEnd(transcription.segments)
    IN  [k \in 1..Len(starts) |->
            [text |-> Join(Slice(words, starts[k],
                                 starts[k] + word_chunk_size)),
             start_time |-> (starts[k] * total_duration) \div Len(words),
             end_time |->
                 (Min(starts[k] + word_chunk_size, Len(words))
                      * total_duration) \div Len(words),
             segments |-> <<>>]]

\* VideoIndexer.chunk_transcription
chunk_transcription(transcription, chunk_duration) ==
    LET st == transcription_loop(transcription.segments,
                  [chunks |-> <<>>,
                   current_chunk |-> [text |-> <<>>, start_time |-> 0,
                                      end_time |-> 0, segments |-> <<>>]],
                  chunk_duration)
        chunks == IF Strip(st.current_chunk.text) # <<>>
                  THEN Append(st.chunks, st.current_chunk)
                  ELSE st.chunks
    IN  IF chunks = <<>> /\ transcription.text # <<>>
        THEN word_chunks(transcription)
        ELSE chunks

\* The windows tried: one, two and three slots long.
ChunkDurations == {chunk_length, default_chunk_duration,
                   chunk_length + default_chunk_duration}

\* The length in seconds of the video whose audio was transcribed: all its
\* slots.
VideoDuration == chunk_length * MaxSegments

\* The word counts tried for a transcription without segments: around one
\* word-count chunk, and more than two.
FallbackWords == {word_chunk_size, word_chunk_size + 1,
                  2 * word_chunk_size + 50}

\* A text of n words and no segments.
RawTranscription(n) == [text |-> Join([i \in 1..n |-> i]), segments |-> <<>>]

\* The transcriptions chunked, each with the duration of its video.
TranscriptionInputs ==
    {[transcription |-> t, chunk_duration |-> d, duration |-> VideoDuration] :
        t \in {Transcription(S) : S \in SUBSET (0..(MaxSegments - 1))}
              \cup {PlaceholderTranscription}
              \cup {RawTranscription(n) : n \in FallbackWords},
        d \in ChunkDurations}

InitVideoChunk == InitCall(TranscriptionInputs, "video")

\* VideoIndexer.chunk_transcription(transcription, chunk_duration)
ChunkTranscription ==
    /\ op' = "chunk_transcription"
    /\ ret' = "list"
    /\ results' = chunk_transcription(params.transcription,
                                      params.chunk_duration)
    /\ UNCHANGED <<documents, embeddings, metadata, speech_enabled, who,
                   file, params, raw, indexing_progress, temp_files,
                   listing, index_calls, chat_history, conversation_history,
                   user_profile>>

NextVideoChunk == ChunkTranscription

SpecVideoChunk == InitVideoChunk /\ [][NextVideoChunk]_vars

\* ------------------------------------- temporary files of a video indexing
\* What can happen to one 30-second slot of the audio in the loop of
\* transcribe_audio:
\*   "text"               exported, transcribed to text, chunk file removed
\*   "blank"              exported, nothing recognised, chunk file removed
\*   "export_raises"      chunk.export raises before the chunk file exists
\*   "transcribe_raises"  exported, _transcribe_chunk raises (sr.AudioFile,
\*                        adjust_for_ambient_noise or record)
SegmentOutcomes == {"text", "blank", "export_raises", "transcribe_raises"}

\* audio_path.lower().endswith('.wav')
IsWav(path) == path[1] = "wav"

\* _convert_to_wav: the path it returns and the file it creates.
convert_to_wav(audio_path) ==
    IF IsWav(audio_path)
    THEN [wav_path |-> audio_path, created |-> {}]
    ELSE [wav_path |-> <<"wav", audio_path[2], "_temp">>,
          created |-> {<<"wav", audio_path[2], "_temp">>}]

\* f"{wav_path}_chunk_{i}.wav"
ChunkPath(wav_path, i) == <<"chunk", wav_path, i>>

\* The files transcribe_audio leaves on disk.  load_ok: AudioSegment.from_wav
\* reads the wav; when it raises, the outer except returns before the
\* converted wav is removed.  A chunk file is unlinked after its
\* transcription, inside the try block of its slot: the except clause of
\* the slot continues without unlinking it.
transcribe_audio_temps(audio_path, outcomes, load_ok, speech) ==
    LET conv == convert_to_wav(audio_path)
    IN  IF ~speech
        THEN {}
        ELSE IF ~load_ok
        THEN conv.created
        ELSE {ChunkPath(conv.wav_path, i - 1) :
                 i \in {j \in 1..Len(outcomes) :
                           outcomes[j] = "transcribe_raises"}}

\* The stored content of one transcription chunk: its first word stands
\* for its first 100 characters, its length for the rest.
ChunkStr(chunk) == Str(Strip(chunk.text)[1], Len(chunk.text))

\* The video whose audio slots have these outcomes, as index_file sees it:
\* the chunks are those of the transcription of the understood slots.
VideoOf(outcomes, load_ok) ==
    LET S == IF load_ok
             THEN {i - 1 : i \in {j \in 1..Len(outcomes) :
                                     outcomes[j] = "text"}}
             ELSE {}
        chunks == chunk_transcription(Transcription(S),
                                      default_chunk_duration)
    IN  [BaseFile("a.mp4", ".mp4") EXCEPT
            !.audio = TRUE,
            !.chunks = [k \in 1..Len(chunks) |-> ChunkStr(chunks[k])]]

\* VideoIndexer.index_file on a video with an audio track, with the files
\* the call leaves on disk: the finally clause unlinks audio_path.
VideoIndexer_index_file_temps(outcomes, load_ok, encode_ok, speech) ==
    LET f == VideoOf(outcomes, load_ok)
        ea == extract_audio(f)
        left == transcribe_audio_temps(TempWav(f), outcomes, load_ok, speech)
        out == VideoIndexer_index_file(f, encode_ok, speech)
    IN  [out EXCEPT !.temps = (ea.created \cup left) \ {TempWav(f)}]

VideoTempInputs ==
    {[outcomes |-> o, load_ok |-> l, encode_ok |-> e] :
        o \in UNION {[1..n -> SegmentOutcomes] : n \in 0..MaxSlots},
        l \in BOOLEAN, e \in BOOLEAN}

InitVideoTemp == InitCall(VideoTempInputs, "video")

\* VideoIndexer.index_file(file_path) on the video of the inputs.
VideoIndexFile ==
    LET out == VideoIndexer_index_file_temps(params.outcomes, params.load_ok,
                   params.encode_ok, speech_enabled)
        contents == Contents(out.docs)
    IN  /\ op = "init"
        /\ documents' = [documents EXCEPT !["video"] = Extend(@, contents)]
        /\ embeddings' = [embeddings EXCEPT
                             !["video"] = Extend(@, EncodeAll(contents))]
        /\ metadata' = [metadata EXCEPT !["video"] = Extend(@, out.docs)]
        /\ op' = "video_index_file"
        /\ file' = VideoOf(params.outcomes, params.load_ok)
        /\ ret' = out.ret
        /\ temp_files' = temp_files \cup out.temps
        /\ UNCHANGED <<speech_enabled, who, params, results, raw,
                       indexing_progress, listing, index_calls,
                       chat_history, conversation_history,
                   user_profile>>

NextVideoTemp == VideoIndexFile

SpecVideoTemp == InitVideoTemp /\ [][NextVideoTemp]_vars

\* ------------------------------------------------- the difficulty analyzer
\* analysis['confidence_indicators'] as far as update_user_profile reads it.
Confidences == {{}, {"baixa"}, {"alta"}, {"baixa", "alta"}}

\* The analyses update_user_profile is given.
Analyses ==
    {[detected_topics |-> t, difficulty_level |-> l,
      format_preferences |-> f, confidence_indicators |-> c] :
        t \in TopicLists, l \in Range(Levels), f \in {<<>>, <<"video">>},
        c \in Confidences}

\* DifficultyAnalyzer.update_user_profile(analysis, user_input)
UpdateUserProfile ==
    /\ user_profile.interaction_history < MaxUpdates
    /\ \E a \in Analyses :
          /\ user_profile' = update_user_profile(user_profile, a)
          /\ params' = a
    /\ op' = "update_user_profile"
    /\ who' = "none"
    /\ file' = NoFile
    /\ ret' = "none"
    /\ results' = <<>>
    /\ raw' = <<>>
    /\ UNCHANGED <<documents, embeddings, metadata, speech_enabled,
                   indexing_progress, temp_files, listing, index_calls,
                   chat_history, conversation_history>>

NextProfile == UpdateUserProfile

SpecProfile == InitCall({NoParams}, "none") /\ [][NextProfile]_vars

\* The profiles a run of same-level updates starts from: the new one, and
\* those after one input of any level.
StartProfiles ==
    {InitialProfile} \cup
    {update_user_profile(InitialProfile, a) : a \in Analyses}

\* A profile, and the level every later analysis will carry.
InitLevel ==
    /\ documents = [ix \in Indexers |-> <<>>]
    /\ embeddings = [ix \in Indexers |-> <<>>]
    /\ metadata = [ix \in Indexers |-> <<>>]
    /\ speech_enabled = TRUE
    /\ op = "init"
    /\ who = "none"
    /\ file = NoFile
    /\ params \in {[difficulty_level |-> l] : l \in Range(Levels)}
    /\ ret = "none"
    /\ results = <<>>
    /\ raw = <<>>
    /\ indexing_progress = <<>>
    /\ temp_files = {}
    /\ listing = <<>>
    /\ index_calls = <<>>
    /\ chat_history = <<>>
    /\ conversation_history = <<>>
    /\ user_profile \in StartProfiles

\* update_user_profile with an analysis at the level chosen at the start.
UpdateSameLevel ==
    /\ user_profile.interaction_history < MaxUpdates
    /\ \E a \in Analyses :
          /\ a.difficulty_level = params.difficulty_level
          /\ user_profile' = update_user_profile(user_profile, a)
    /\ op' = "update_user_profile"
    /\ UNCHANGED <<documents, embeddings, metadata, speech_enabled, who,
                   file, params, ret, results, raw, indexing_progress,
                   temp_files, listing, index_calls, chat_history,
                   conversation_history>>

NextLevel == UpdateSameLevel

\* Updates keep coming as long as the bound allows.
SpecLevel == InitLevel /\ [][NextLevel]_vars /\ WF_vars(UpdateSameLevel)

\* --------------------------------------------------------- the study plan
\* ContentGenerator.generate_study_plan: the plan without its activities,
\* resources and milestones.
generate_study_plan(profile, topics, duration_weeks) ==
    LET gap_topics == {profile.knowledge_gaps[i].topic :
                          i \in 1..Len(profile.knowledge_gaps)}
        high == SelectSeq(topics, LAMBDA t : t \in gap_topics)
        normal == SelectSeq(topics, LAMBDA t : t \notin gap_topics)
        priority_topics ==
            [i \in 1..Len(high) |-> <<high[i], "high_priority">>]
            \o [i \in 1..Len(normal) |-> <<normal[i], "normal_priority">>]
        topics_per_week == Max(1, Len(priority_topics) \div duration_weeks)
        week_topics(week) ==
            Slice(priority_topics, week * topics_per_week,
                  Min(week * topics_per_week + topics_per_week,
                      Len(priority_topics)))
    IN  [duration_weeks |-> duration_weeks,
         user_level |-> profile.overall_level,
         learning_preferences |-> profile.learning_preferences,
         weekly_schedule |->
            [w \in 1..duration_weeks |->
                [week |-> w,
                 topics |-> [i \in 1..Len(week_topics(w - 1)) |->
                                week_topics(w - 1)[i][1]],
                 priority_topics |->
                    LET hp == SelectSeq(week_topics(w - 1),
                                  LAMBDA t : t[2] = "high_priority")
                    IN  [i \in 1..Len(hp) |-> hp[i][1]],
                 time_estimate |-> "5-8 horas"]]]

\* A profile with these knowledge gaps.
ProfileWithGaps(gaps) ==
    [InitialProfile EXCEPT
        !.interaction_history = 1,
        !.knowledge_gaps = [i \in 1..Len(gaps) |->
                               [topic |-> gaps[i], confidence_score |-> 3]]]

\* The plans asked for: the topics are numbered, any of them may be a
\* knowledge gap, for one to MaxWeeks weeks.
PlanInputs ==
    {[profile |-> ProfileWithGaps(Ascending(g)),
      topics |-> [i \in 1..n |-> i], duration_weeks |-> w] :
        n \in 0..MaxPlanTopics, g \in SUBSET (1..MaxPlanTopics),
        w \in 1..MaxWeeks}

InitPlan == InitCall(PlanInputs, "none")

\* ContentGenerator.generate_study_plan(user_profile, topics,
\* duration_weeks)
GenerateStudyPlan ==
    /\ op' = "generate_study_plan"
    /\ ret' = "dict"
    /\ results' = generate_study_plan(params.profile, params.topics,
                                      params.duration_weeks).weekly_schedule
    /\ UNCHANGED <<documents, embeddings, metadata, speech_enabled, who,
                   file, params, raw, indexing_progress, temp_files,
                   listing, index_calls, chat_history, conversation_history,
                   user_profile>>

NextPlan == GenerateStudyPlan

SpecPlan == InitPlan /\ [][NextPlan]_vars

\* ----------------------------------------------------------------- claims
StoreIndices(ix) == 1..Len(documents[ix])

\* C1: in every reachable state, for each indexer, documents, embeddings
\* and metadata have the same length and position i of the three lists
\* describes the same chunk: documents[i] is metadata[i]['content'] and
\* embeddings[i] is the embedding of documents[i].
C1_ParallelLists ==
    \A ix \in Indexers :
        /\ Len(documents[ix]) = Len(embeddings[ix])
        /\ Len(documents[ix]) = Len(metadata[ix])
        /\ \A i \in StoreIndices(ix) :
              /\ documents[ix][i] = metadata[ix][i].content
              /\ embeddings[ix][i] = Encode(documents[ix][i])

\* A failed index_file call (an exception) on a store that holds chunks,
\* one of them with empty content.
C1_Witness ==
    /\ op = "index_file"
    /\ ret = "raise"
    /\ Len(documents["text"]) = 2
    /\ documents["text"][1] = EmptyStr

\* C2: every call leaves each list of each store a prefix of what it was
\* (nothing removed, replaced or reordered), and search and get_stats
\* leave the three lists exactly as they were.
C2_AppendOnly ==
    [][ /\ \A ix \in Indexers :
              /\ IsPrefix(documents[ix], documents'[ix])
              /\ IsPrefix(embeddings[ix], embeddings'[ix])
              /\ IsPrefix(metadata[ix], metadata'[ix])
        /\ op' \in {"search", "get_stats"} => store' = store ]_vars

\* A second successful index_file on a store that already held a chunk.
C2_Witness ==
    /\ op = "index_file"
    /\ ret = "True"
    /\ Len(documents[who]) = 2
    /\ metadata[who][1].source # metadata[who][2].source

\* C3: search(query, top_k = k, min_similarity = 0.0) returns at most k
\* results, in order of non-increasing similarity.
C3_TopKSorted ==
    (op = "search" /\ ret = "list" /\ params.min_similarity = 0) =>
        /\ Len(results) <= params.top_k
        /\ \A i, j \in 1..Len(results) :
              i < j => results[i].similarity >= results[j].similarity

\* Two results of different similarity; and fewer results than stored.
C3_Witness ==
    /\ op = "search"
    /\ params.min_similarity = 0
    /\ Len(results) = 2
    /\ results[1].similarity > results[2].similarity

\* C4: search never returns a result whose similarity is below
\* min_similarity, and a stored entry whose similarity is exactly
\* min_similarity is left out only when top_k results are returned.
C4_MinSimilarity ==
    (op = "search" /\ ret = "list") =>
        /\ \A j \in 1..Len(results) :
              results[j].similarity >= params.min_similarity
        /\ \A i \in StoreIndices(who) :
              ( /\ Dot(embeddings[who][i], EncodeQuery(params.query))
                      = params.min_similarity
                /\ Len(results) < params.top_k )
              => \E j \in 1..Len(results) : results[j].idx = i

\* A result exactly at the threshold 0.3 returned while another stored
\* chunk, below it, is not.
C4_Witness ==
    /\ op = "search"
    /\ params.min_similarity = 3
    /\ Len(results) = 1
    /\ results[1].similarity = 3
    /\ Len(documents[who]) = 2
    /\ params.top_k = 2

\* C5: when two returned chunks have equal similarity, the one stored
\* earlier (lower store index) comes first.
C5_TiesByInsertion ==
    (op = "search" /\ ret = "list") =>
        \A i, j \in 1..Len(results) :
            (i < j /\ results[i].similarity = results[j].similarity)
                => results[i].idx < results[j].idx

\* C6: search on an empty store returns the empty list and does not raise,
\* whatever the query, top_k and min_similarity.
C6_EmptyStore ==
    (op = "search" /\ embeddings[who] = <<>>) =>
        (ret = "list" /\ results = <<>>)

\* search on an empty store, while another indexer holds chunks.
C6_Witness ==
    /\ op = "search"
    /\ embeddings[who] = <<>>
    /\ params.top_k > 0
    /\ Stored > 0

\* C7: index_file on a path that does not exist returns False and leaves
\* documents, embeddings and metadata as they were.
C7_MissingPath ==
    [][ (op' = "index_file" /\ ~file'.exists) =>
            (ret' = "False" /\ store' = store) ]_vars

\* index_file on a missing path, made on a video indexer that holds a chunk.
C7_Witness ==
    /\ op = "index_file"
    /\ ~file.exists
    /\ who = "video"
    /\ Len(documents["video"]) > 0

\* The file exists, has a format the indexer supports, and extraction or
\* description generation yields no usable content.
NoUsableContent(ix, f) ==
    /\ f.exists
    /\ f.ext \in SupportedFormats(ix)
    /\ \/ f.ext = ".txt" /\ f.readable /\ f.chunks = <<>>
       \/ f.ext = ".json" /\ f.readable
            /\ \A i \in 1..Len(f.items) :
                  f.items[i].isdict => f.items[i].text = EmptyStr
       \/ ix = "image" /\ ~f.readable
       \/ ix = "pdf" /\ extract_text(f).text.len = 0

\* C8: index_file on such a file returns False and appends nothing.  (A
\* call in which the embedding model raises is not held against the claim.)
C8_NoContentFails ==
    (op = "index_file" /\ NoUsableContent(who, file) /\ ret # "raise") =>
        ret = "False"

\* C9: index_file on a missing or unreadable file returns False, and no
\* exception leaves index_file.
C9_UnreadableFails ==
    (op = "index_file" /\ (~file.exists \/ ~file.readable)) =>
        ret = "False"

\* The first hit of the raw list whose content has the given prefix.
FirstWithPrefix(hits, p) ==
    hits[CHOOSE k \in 1..Len(hits) :
            /\ Prefix100(hits[k].content) = p
            /\ \A l \in 1..(k - 1) : Prefix100(hits[l].content) # p]

\* C10: the list the aggregator returns has at most max_search_results
\* entries, no two entries with the same first 100 content characters, is
\* in order of non-increasing similarity, and each entry is the first raw
\* hit with its content prefix.
C10_Aggregated ==
    op = "search_indexed_content" =>
        /\ Len(results) <= max_search_results
        /\ \A i, j \in 1..Len(results) :
              i # j => Prefix100(results[i].content) # Prefix100(results[j].content)
        /\ \A i, j \in 1..Len(results) :
              i < j => results[i].similarity >= results[j].similarity
        /\ \A i \in 1..Len(results) :
              results[i] = FirstWithPrefix(raw, Prefix100(results[i].content))

\* Duplicates were dropped and the deduplicated list, longer than the
\* maximum, was cut to it.
C10_Witness ==
    /\ op = "search_indexed_content"
    /\ Len(results) = max_search_results
    /\ Len(deduplicate_results(raw)) > max_search_results
    /\ Len(raw) > Len(deduplicate_results(raw))

\* ------------------------------------------------------ ingestion driver
\* The regular files of the listing that the driver has an indexer for.
RoutedNames ==
    SelectSeq(listing, LAMBDA n : FileNamed(n).is_file
                                  /\ Route(FileNamed(n).ext) # "none")

StatusOf(r) ==
    CASE r = "True" -> "Sucesso" [] r = "False" -> "Falha" [] OTHER -> "Erro"

\* C12: after index_resources_data, index_file has been called exactly once
\* for every regular file with a routed extension, on the indexer of that
\* extension and in listing order, whatever the earlier calls returned or
\* raised, and each such file has the status of its own call.
C12_FileIsolation ==
    op # "init" =>
        /\ Len(index_calls) = Len(RoutedNames)
        /\ \A k \in 1..Len(index_calls) :
              /\ index_calls[k].name = RoutedNames[k]
              /\ index_calls[k].indexer = Route(FileNamed(RoutedNames[k]).ext)
              /\ RoutedNames[k] \in DOMAIN indexing_progress
              /\ indexing_progress[RoutedNames[k]] = StatusOf(index_calls[k].ret)

\* A call that raised and a call that returned False, each followed by a
\* later call that succeeded.
C12_Witness ==
    /\ op = "load_indexers"
    /\ \E i, j, k \in 1..Len(index_calls) :
          /\ i < k /\ j < k
          /\ index_calls[i].ret = "raise"
          /\ index_calls[j].ret = "False"
          /\ index_calls[k].ret = "True"

\* C13: after the loop every regular file of the directory has a recorded
\* status, a failure status when the driver does not know its extension.
C13_UnrecognizedRecorded ==
    op # "init" =>
        \A k \in 1..Len(listing) :
            FileNamed(listing[k]).is_file =>
                /\ listing[k] \in DOMAIN indexing_progress
                /\ Route(FileNamed(listing[k]).ext) = "none" =>
                      indexing_progress[listing[k]] # "Sucesso"

\* C14: every regular file whose extension is in an indexer's
\* supported_formats reaches index_file of that indexer.
C14_RoutingAgrees ==
    op # "init" =>
        \A k \in 1..Len(listing), ix \in Indexers :
            ( /\ FileNamed(listing[k]).is_file
              /\ FileNamed(listing[k]).ext \in SupportedFormats(ix) ) =>
                \E c \in 1..Len(index_calls) :
                    /\ index_calls[c].name = listing[k]
                    /\ index_calls[c].indexer = ix

\* ------------------------------------------------------------------ chat
\* C11: when a search raises while a question is answered, the exception
\* leaves AdaptivePromptSystem.process_user_input and the handler appends
\* the apology to the chat history.
C11_SearchErrorPropagates ==
    (op = "process_user_input" /\ SearchRaises(params.encode_ok)) =>
        /\ ret = "raise"
        /\ chat_history[Len(chat_history)] = Apology

\* C11 as amended: an exception of an indexer's search is caught in the
\* retrieval, which still returns the hits of the other indexers, and does
\* not by itself make process_user_input raise; the handler appends the
\* user message and then one assistant message: the apology when an
\* exception did leave process_user_input, the response otherwise.  The
\* stores are left as they were.
C11_SearchErrorCaught ==
    [][ op' = "process_user_input" =>
          /\ Len(chat_history') = Len(chat_history) + 2
          /\ chat_history'[Len(chat_history') - 1].role = "user"
          /\ chat_history'[Len(chat_history')] =
                IF ret' = "raise" THEN Apology ELSE AssistantMessage(results')
          /\ store' = store
          /\ (ret' = "raise") = ~params'.respond_ok
          /\ \A ix \in Indexers :
                ( /\ params'.encode_ok[ix]
                  /\ \E i \in StoreIndices(ix) :
                        Dot(embeddings[ix][i], EncodeQuery(params'.query))
                            >= similarity_threshold )
                => \E h \in 1..Len(raw') : raw'[h].source_type = ix
          /\ results' = search_indexed_content(raw') ]_vars

\* The model of one indexer failed during the search, its store is not
\* empty, and the response still carries hits of another indexer.
C11_Witness ==
    /\ op = "process_user_input"
    /\ SearchRaises(params.encode_ok)
    /\ ret = "dict"
    /\ Len(results) > 0
    /\ chat_history[Len(chat_history)] = AssistantMessage(results)

\* ------------------------------------------------------- temporary files
\* C20: index_file of the video indexer on an existing video of a supported
\* format that has no audio track returns False, does not raise, leaves the
\* store as it was and leaves no temporary file of the call on disk.
C20_NoAudioCleansUp ==
    [][ ( /\ op' = "index_file" /\ who' = "video"
          /\ file'.exists /\ file'.ext \in video_supported_formats
          /\ file'.readable /\ ~file'.audio ) =>
            ( /\ ret' = "False"
              /\ store' = store
              /\ temp_files' = temp_files ) ]_vars

\* ------------------------------------------------------------- chunking
\* ceil(n / d) for d > 0
Ceil(n, d) == (n + d - 1) \div d

RECURSIVE Flatten(_)
Flatten(ss) == IF ss = <<>> THEN <<>> ELSE Head(ss) \o Flatten(Tail(ss))

\* C15: process_txt_file on a text of exactly 300 words returns exactly one
\* document, whose content is the whole cleaned text.
C15_ThreeHundredWords ==
    (op = "process_txt_file" /\ Len(Split(params.text)) = 300) =>
        /\ Len(results) = 1
        /\ results[1].content = clean_text(params.text)

\* C15 as amended: on a text of exactly 300 words it returns exactly two
\* documents: the whole cleaned text, and its last 50 words.
C15_TwoChunks ==
    (op = "process_txt_file" /\ Len(Split(params.text)) = 300) =>
        /\ Len(results) = 2
        /\ results[1].content = clean_text(params.text)
        /\ results[2].content = Join([i \in 1..50 |-> 250 + i])
        /\ \A i \in 1..2 : /\ results[i].chunk_index = i - 1
                            /\ results[i].total_chunks = 2

\* A text of 300 words that is not clean as read.
C15_Witness ==
    /\ op = "process_txt_file"
    /\ Len(Split(params.text)) = 300
    /\ params.text # clean_text(params.text)
    /\ Len(results) > 1

\* C16: for N words, chunk size C and overlap O with 0 <= O < C, chunk_text
\* returns ceil(N / (C - O)) chunks, chunk i (from 0) is the words from
\* index i * (C - O) on, at most C of them, and the first C - O words of
\* every chunk but the last followed by the whole last chunk are the words
\* of the text.
C16_ChunkCount ==
    (op = "chunk_text" /\ params.overlap < params.chunk_size) =>
        LET words == Split(params.text)
            C == params.chunk_size
            step == params.chunk_size - params.overlap
            n == Len(results)
        IN  /\ ret = "list"
            /\ n = Ceil(Len(words), step)
            /\ \A i \in 1..n :
                  Split(results[i]) =
                      SubSeq(words, (i - 1) * step + 1,
                             Min((i - 1) * step + C, Len(words)))
            /\ Flatten([i \in 1..n |->
                          IF i < n THEN SubSeq(Split(results[i]), 1, step)
                          ELSE Split(results[i])]) = words

\* Overlapping chunks, the last one shorter than the chunk size.
C16_Witness ==
    /\ op = "chunk_text"
    /\ params.overlap > 0
    /\ params.overlap < params.chunk_size
    /\ Len(results) >= 3
    /\ Len(Split(results[Len(results)])) < params.chunk_size
    /\ Len(Split(results[1])) = params.chunk_size

\* C17: for every chunk_size and overlap, chunk_text does not raise, returns
\* no chunk without words, and on a text with words returns chunks that
\* hold every word of it.
C17_StrideGuard ==
    op = "chunk_text" =>
        /\ ret = "list"
        /\ \A i \in 1..Len(results) : Split(results[i]) # <<>>
        /\ \A w \in Range(Split(params.text)) :
              \E i \in 1..Len(results) : w \in Range(Split(results[i]))

\* The chunks laid end to end, with the token -2 between two chunks.
RECURSIVE FlatSep(_)
FlatSep(cs) ==
    IF cs = <<>> THEN <<>>
    ELSE IF Len(cs) = 1 THEN cs[1]
    ELSE Head(cs) \o <<-2>> \o FlatSep(Tail(cs))

\* The first position at which s occurs in t, 0 when it does not occur.
FirstOcc(s, t) ==
    LET at == {p \in 1..(Len(t) + 1) :
                  /\ p + Len(s) - 1 <= Len(t)
                  /\ SubSeq(t, p, p + Len(s) - 1) = s}
    IN  IF at = {} THEN 0 ELSE CHOOSE p \in at : \A q \in at : p <= q

\* C18: after PDFIndexer.chunk_text, every sentence of the sentence split
\* occurs in at least one chunk, and the first occurrences of the sentences
\* across the chunk sequence are in the order of the sentences.
C18_SentencesKept ==
    op = "pdf_chunk_text" =>
        LET sentences == re_split(params.text, <<>>, <<>>)
            flat == FlatSep(results)
            pos == [j \in 1..Len(sentences) |-> FirstOcc(sentences[j], flat)]
        IN  /\ \A j \in 1..Len(sentences) :
                    \E k \in 1..Len(results) :
                        FirstOcc(sentences[j], results[k]) > 0
            /\ \A j \in 1..(Len(sentences) - 1) : pos[j] < pos[j + 1]

\* C18 witness: four sentences were chunked with one sentence of overlap
\* into at least three chunks, and the second sentence is in two chunks.
C18_Witness ==
    /\ op = "pdf_chunk_text"
    /\ params.overlap = 20
    /\ Len(re_split(params.text, <<>>, <<>>)) = 4
    /\ Len(results) >= 3
    /\ FirstOcc(re_split(params.text, <<>>, <<>>)[2], results[1]) > 0
    /\ FirstOcc(re_split(params.text, <<>>, <<>>)[2], results[2]) > 0

\* The segments of every chunk, in chunk order.
ChunkedSegments == Flatten([k \in 1..Len(results) |-> results[k].segments])

\* The start_time of the chunk that holds segment number j of the input.
HolderStart(j) ==
    LET k == CHOOSE c \in 1..Len(results) :
                 \E p \in 1..Len(results[c].segments) :
                     results[c].segments[p] = params.transcription.segments[j]
    IN  results[k].start_time

\* Segment number j of the input is the first segment of a chunk other than
\* the first chunk: it closed the chunk before it.
ClosedAChunk(j) ==
    \E k \in 2..Len(results) :
        results[k].segments[1] = params.transcription.segments[j]

\* Every segment is in exactly one chunk, in order, and every chunk runs
\* from the start of its first segment to the end of its last.
SegmentsPartitioned ==
    /\ ChunkedSegments = params.transcription.segments
    /\ \A k \in 1..Len(results) :
          LET segs == results[k].segments
          IN  /\ segs # <<>>
              /\ results[k].start_time = segs[1].start
              /\ results[k].end_time = segs[Len(segs)].end

\* C19 as stated: after chunk_transcription of a transcription with
\* segments, the segments are partitioned in order into the chunks with the
\* chunk times taken from the first and last segment, and a segment closes
\* the current chunk exactly when its start is strictly greater than the
\* chunk's start_time plus the window.
C19_ClosesStrictlyAfter ==
    (op = "chunk_transcription" /\ params.transcription.segments # <<>>) =>
        /\ SegmentsPartitioned
        /\ \A j \in 2..Len(params.transcription.segments) :
              ClosedAChunk(j) <=>
                  params.transcription.segments[j].start
                      > HolderStart(j - 1) + params.chunk_duration

\* C19 amended: the same, with a segment closing the current chunk exactly
\* when its start is greater than or equal to the chunk's start_time plus
\* the window.
C19_ClosesAtWindow ==
    (op = "chunk_transcription" /\ params.transcription.segments # <<>>) =>
        /\ SegmentsPartitioned
        /\ \A j \in 2..Len(params.transcription.segments) :
              ClosedAChunk(j) <=>
                  params.transcription.segments[j].start
                      >= HolderStart(j - 1) + params.chunk_duration

\* C19 witness: five consecutive segments were chunked with the default
\* window into three chunks, the second starting exactly one window after
\* the first.
C19_Witness ==
    /\ op = "chunk_transcription"
    /\ params.chunk_duration = default_chunk_duration
    /\ Len(params.transcription.segments) = 5
    /\ Len(results) = 3
    /\ Len(results[1].segments) = 2
    /\ results[2].start_time = results[1].start_time + default_chunk_duration

\* The numbers of the input sentences that occur in chunk k of the result.
SentencesIn(k) ==
    LET sentences == re_split(params.text, <<>>, <<>>)
    IN  {j \in 1..Len(sentences) : FirstOcc(sentences[j], results[k]) > 0}

\* C23: after PDFIndexer.chunk_text, every chunk but the first begins with
\* exactly min(overlap // 20, number of sentences of the chunk before it)
\* sentences carried from the end of the chunk before it, followed by the
\* new sentence, for every overlap >= 0.
C23_OverlapCarry ==
    (op = "pdf_chunk_text" /\ params.text # <<>>) =>
        \A k \in 2..Len(results) :
            LET closed == SentencesIn(k - 1)
                carried == SentencesIn(k) \cap closed
            IN  /\ Cardinality(carried) =
                       Min(params.overlap \div 20, Cardinality(closed))
                /\ \A j \in carried : \A i \in closed : i > j => i \in carried
                /\ \A j \in carried : \A i \in SentencesIn(k) \ carried : j < i
                /\ SentencesIn(k) \ carried # {}

\* C24: every chunk returned by PDFIndexer.chunk_text holds at most
\* chunk_size words, except a chunk made of one single sentence.
C24_WordBudget ==
    op = "pdf_chunk_text" =>
        \A k \in 1..Len(results) :
            \/ WordCount(results[k]) <= params.chunk_size
            \/ Cardinality(SentencesIn(k)) = 1

\* C25: in the word-count fallback of chunk_transcription (no segments, a
\* text of N > 0 words), chunk k holds the at most 200 words from word
\* i = 200 * k on, its start_time is (i / N) * D and its end_time is
\* min((i + 200) / N, 1) * D, where D is the total duration of the video:
\* the time ranges tile [0, D] and the last chunk ends at D.
C25_FallbackTimes ==
    (/\ op = "chunk_transcription"
     /\ params.transcription.segments = <<>>
     /\ params.transcription.text # <<>>) =>
        LET words == Split(params.transcription.text)
            N == Len(words)
            D == params.duration
            n == Len(results)
        IN  /\ n = Ceil(N, word_chunk_size)
            /\ \A k \in 1..n :
                  LET i == word_chunk_size * (k - 1)
                  IN  /\ Split(results[k].text) =
                             Slice(words, i, i + word_chunk_size)
                      /\ results[k].start_time * N = i * D
                      /\ results[k].end_time * N =
                             Min(i + word_chunk_size, N) * D
            /\ results[1].start_time = 0
            /\ \A k \in 1..(n - 1) :
                  results[k].end_time = results[k + 1].start_time
            /\ results[n].end_time = D

\* C22: in every reachable state, the metadata of every stored document of
\* every indexer has the keys source, type, chunk_index and total_chunks,
\* its type is text, pdf, image or video, and
\* 0 <= chunk_index < total_chunks.
C22_MetadataKeys ==
    \A ix \in Indexers : \A i \in 1..Len(metadata[ix]) :
        LET md == metadata[ix][i]
        IN  /\ {"source", "type", "chunk_index", "total_chunks"}
                   \subseteq DOMAIN md
            /\ md.type \in {"text", "pdf", "image", "video"}
            /\ 0 <= md.chunk_index
            /\ md.chunk_index < md.total_chunks

\* C26: after _search_indexed_content, every hit of the returned list has
\* the highest similarity among the raw hits (of any indexer, primary or
\* topic query) that share its content prefix.
C26_BestDuplicateKept ==
    op = "search_indexed_content" =>
        \A i \in 1..Len(results) : \A j \in 1..Len(raw) :
            Prefix100(raw[j].content) = Prefix100(results[i].content)
                => raw[j].similarity <= results[i].similarity

\* C21: when VideoIndexer.index_file returns or raises after a successful
\* audio extraction, no temporary file created during the call (extracted
\* audio, converted wav, chunk file of a slot) is left, whatever happened
\* to the wav and to each slot.
C21_TempsRemoved ==
    op = "video_index_file" => temp_files = {}

\* C27: conversation_history never holds more than conversation_memory
\* interactions, they are in chronological order, reset_session empties
\* it, and a process_user_input that returns leaves the most recent
\* conversation_memory interactions of the history before it followed by
\* the new interaction; one that raises leaves the history as it was.
C27_HistoryWindow ==
    [][/\ Len(conversation_history') <= conversation_memory
       /\ \A i \in 1..(Len(conversation_history') - 1) :
             conversation_history'[i].timestamp
                 < conversation_history'[i + 1].timestamp
       /\ op' = "reset_session" => conversation_history' = <<>>
       /\ (op' = "ask" /\ ret' = "raise") =>
             conversation_history' = conversation_history
       /\ (op' = "ask" /\ ret' = "dict") =>
             LET all == Append(conversation_history,
                               Interaction(user_profile', params'.query))
                 n == Min(Len(all), conversation_memory)
             IN  conversation_history' =
                     SubSeq(all, Len(all) - n + 1, Len(all))]_vars

\* C27 witness: the history is full, its oldest interaction is not the
\* first of the session, and an input was skipped by an exception.
C27_Witness ==
    /\ op = "ask"
    /\ ret = "dict"
    /\ Len(conversation_history) = conversation_memory
    /\ conversation_history[1].timestamp > 1
    /\ conversation_history[conversation_memory].timestamp
           - conversation_history[1].timestamp >= conversation_memory

\* C28: when every update_user_profile call carries an analysis at the
\* same level L, the profile's overall_level eventually equals L and stays
\* L.
C28_LevelConverges ==
    <>[](user_profile.overall_level = params.difficulty_level)

\* C29: in every reachable state no topic is both in the profile's
\* knowledge_gaps and in its strong_topics.
C29_GapsNotStrong ==
    \A i \in 1..Len(user_profile.knowledge_gaps) :
        user_profile.knowledge_gaps[i].topic
            \notin Range(user_profile.strong_topics)

\* C30: the weekly_schedule of generate_study_plan has duration_weeks
\* entries, and the topics of its weeks, in week order, are the input
\* topics, each once: the knowledge-gap topics first, then the others.
C30_PlanCoversTopics ==
    op = "generate_study_plan" =>
        LET gap_topics == {params.profile.knowledge_gaps[i].topic :
                              i \in 1..Len(params.profile.knowledge_gaps)}
            planned == Flatten([w \in 1..Len(results) |-> results[w].topics])
        IN  /\ Len(results) = params.duration_weeks
            /\ planned =
                  SelectSeq(params.topics, LAMBDA t : t \in gap_topics)
                  \o SelectSeq(params.topics, LAMBDA t : t \notin gap_topics)

====
